---- MODULE Spec2Model ----
(***************************************************************************)
(* Model of generate_test_meshes.py: the sphere mesh generator, the three  *)
(* encoders (binary STL, OBJ, VTP), generate_test_mesh and main.           *)
(*                                                                         *)
(* Two specifications share the definitions of this module.                *)
(*   Spec     one call of generate_test_mesh, or of one encoder, on a      *)
(*            small input; the mesh is held as the two Python lists and    *)
(*            every file as the bytes or lines written to it.              *)
(*   SpecRun  a run of main over its built-in size list, or one call of    *)
(*            generate_test_mesh at a size of that magnitude; a mesh of    *)
(*            20,200 to 2,002,000 vertices is held by the lengths of its   *)
(*            two lists, counted loop iteration by loop iteration, and a   *)
(*            file by the counts it declares.  Encoder writes may fail.    *)
(*                                                                         *)
(* A coordinate is a float that TLA+ cannot compute (sin, cos).  A vertex  *)
(* is therefore held as its grid position <<i, j>>, which determines the   *)
(* coordinates computed at lines 58-66, and a float32 field of a file is   *)
(* held as the name of the value packed into it.                           *)
(***************************************************************************)
EXTENDS Integers, Sequences, FiniteSets, TLC

VARIABLES
    entry,          \* the function the caller invoked
    num_nodes,      \* generate_test_mesh: its argument (the current size in main)
    formats,        \* generate_test_mesh: its formats argument
    pc,             \* position in the running function
    mesh,           \* <<>> while vertices, faces are unbound, else <<[vertices, faces]>>
    actual_nodes,   \* generate_test_mesh: len(vertices), line 231
    actual_faces,   \* generate_test_mesh: len(faces), line 232
    suffix,         \* generate_test_mesh: the filename suffix, lines 237-242
    files,          \* the file system: a function from file names to contents
    files_created,  \* generate_test_mesh: its result list
    raised,         \* the exception that ended the call, "none" if none
    test_sizes,     \* main: the size list
    size_ix,        \* main: index of the size being generated (1-based)
    all_files,      \* main: the accumulated list of file names
    gen_calls,      \* number of calls of generate_sphere_mesh made so far
    writes          \* log of the encoder calls made so far, in order

vars == <<entry, num_nodes, formats, pc, mesh, actual_nodes, actual_faces, suffix,
          files, files_created, raised, test_sizes, size_ix, all_files, gen_calls,
          writes>>

----------------------------------------------------------------------------
(* Bounds of the model *)

\* generate_test_mesh is called with num_nodes in -NegNodes .. MaxNodes
MaxNodes == 16
NegNodes == 2
\* an encoder called directly gets a mesh of at most MaxV vertices, MaxF faces
MaxV == 2
MaxF == 2

Formats == {"stl", "obj", "vtp"}

----------------------------------------------------------------------------
(* generate_sphere_mesh, lines 33-86 *)

\* int(math.sqrt(n)) for n >= 0: the truncated square root
ApproxDivisions(n) == CHOOSE d \in 0..n : d * d <= n /\ (d + 1) * (d + 1) > n

\* math.sqrt raises ValueError (math domain error) on a negative argument
SqrtRaises(n) == n < 0

LatDivisions(n) == ApproxDivisions(n)

LonDivisionsHalved(n) == ApproxDivisions(n)
LonDivisions(n) == ApproxDivisions(n) * 2

\* math.pi * i / lat_divisions raises ZeroDivisionError when lat_divisions = 0;
\* range(lat_divisions + 1) is never empty there, so the first iteration raises
ThetaNeverRaises(lat) == FALSE
ThetaRaises(lat) == lat = 0

\* the vertex appended at ring i, longitude sample j (lines 61-68)
Vertex(i, j) == <<i, j>>

\* inner loop, lines 60-68: the vertices of ring i in longitude order
RingVertices(i, lon) == [k \in 1..lon |-> Vertex(i, k - 1)]

\* outer loop, lines 57-68, from ring i on: range(lat_divisions + 1)
RECURSIVE VertexRings(_, _, _)
VertexRings(i, lat, lon) ==
    IF i >= lat + 1 THEN <<>>
    ELSE RingVertices(i, lon) \o VertexRings(i + 1, lat, lon)

\* quad corners, lines 75-78
V1(i, j, lon) == i * lon + j
V2(i, j, lon) == i * lon + ((j + 1) % lon)
V3(i, j, lon) == (i + 1) * lon + j
V4(i, j, lon) == (i + 1) * lon + ((j + 1) % lon)

\* line 81: the first triangle is appended when i > 0
FirstGuardAlways(i) == i >= 0
FirstGuard(i) == i > 0

\* line 83: the second triangle is appended when i < lat_divisions - 1
SecondGuardWholeLoop(i, lat) == i < lat
SecondGuard(i, lat) == i < lat - 1

\* lines 75-84: the faces appended for ring pair i, longitude j
QuadFaces(i, j, lat, lon) ==
    (IF FirstGuard(i)
       THEN << <<V1(i, j, lon), V2(i, j, lon), V3(i, j, lon)>> >> ELSE <<>>)
    \o (IF SecondGuard(i, lat)
          THEN << <<V2(i, j, lon), V4(i, j, lon), V3(i, j, lon)>> >> ELSE <<>>)

\* inner loop, lines 73-84, from longitude j on: range(lon_divisions)
RECURSIVE RingFaces(_, _, _, _)
RingFaces(i, j, lat, lon) ==
    IF j >= lon THEN <<>>
    ELSE QuadFaces(i, j, lat, lon) \o RingFaces(i, j + 1, lat, lon)

\* number of ring pairs the face loop visits, line 72: range(lat_divisions)
FaceRingCountOneMore(lat) == lat + 1
FaceRingCount(lat) == lat

\* outer loop, lines 72-84, from ring pair i on
RECURSIVE FaceRings(_, _, _)
FaceRings(i, lat, lon) ==
    IF i >= FaceRingCount(lat) THEN <<>>
    ELSE RingFaces(i, 0, lat, lon) \o FaceRings(i + 1, lat, lon)

\* the call as a whole: the exception raised, or the pair returned at line 86
GenerateSphereMesh(n) ==
    IF SqrtRaises(n) THEN [raised |-> "ValueError", result |-> <<>>]
    ELSE IF ThetaRaises(LatDivisions(n))
      THEN [raised |-> "ZeroDivisionError", result |-> <<>>]
    ELSE [raised |-> "none",
          result |-> << [vertices |-> VertexRings(0, LatDivisions(n), LonDivisions(n)),
                         faces |-> FaceRings(0, LatDivisions(n), LonDivisions(n))] >>]

----------------------------------------------------------------------------
(* Values written to files *)

\* a float of the program, named by what it was computed from
NoFloat == [kind |-> "none", pts |-> <<>>, axis |-> 0]
\* coordinate axis (1 = x, 2 = y, 3 = z) of vertex p, lines 64-66
Coord(p, axis) == [kind |-> "coord", pts |-> <<p>>, axis |-> axis]
\* component axis of the normal computed from the three vertices, lines 114-128:
\* the normalised cross product, or the fallback (0, 0, 1) when its length is 0
NormalComp(p1, p2, p3, axis) == [kind |-> "normal", pts |-> <<p1, p2, p3>>, axis |-> axis]

\* a byte of a binary file: a literal value, or byte ix (1 = lowest) of the
\* little-endian IEEE-754 single that struct.pack('<f', x) rounds float x to
LitByte(n) == [lit |-> n, f |-> NoFloat, ix |-> 0]
FloatByte(x, b) == [lit |-> 0 - 1, f |-> x, ix |-> b]

\* struct.pack('<f', x)
PackF32(x) == [b \in 1..4 |-> FloatByte(x, b)]
\* struct.pack('<fff', a, b, c)
PackFFF(t) == PackF32(t[1]) \o PackF32(t[2]) \o PackF32(t[3])

Pow256(k) == IF k = 0 THEN 1 ELSE IF k = 1 THEN 256 ELSE IF k = 2 THEN 65536 ELSE 16777216
\* struct.pack('<I', n), for 0 <= n < 2^32
PackU32LE(n) == [b \in 1..4 |-> LitByte((n \div Pow256(b - 1)) % 256)]
\* struct.pack('<H', n), for 0 <= n < 2^16
PackU16LE(n) == [b \in 1..2 |-> LitByte((n \div Pow256(b - 1)) % 256)]

\* str(n) for n >= 0, as the sequence of its decimal digits
RECURSIVE Digits(_)
Digits(n) == IF n < 10 THEN <<n>> ELSE Digits(n \div 10) \o <<n % 10>>

\* the ASCII codes of a sequence of decimal digits
DigitCodes(ds) == [k \in 1..Len(ds) |-> 48 + ds[k]]

\* s.ljust(width, fill)
Ljust(s, width, fill) ==
    IF Len(s) >= width THEN s ELSE s \o [k \in 1..(width - Len(s)) |-> fill]

\* s[:n]
Take(s, n) == SubSeq(s, 1, IF Len(s) < n THEN Len(s) ELSE n)

----------------------------------------------------------------------------
(* write_stl_binary, lines 89-139 *)

\* "Generated sphere mesh with " and " nodes" in ASCII, line 103
StlHeaderPrefix ==
    <<71, 101, 110, 101, 114, 97, 116, 101, 100, 32, 115, 112, 104, 101, 114, 101,
      32, 109, 101, 115, 104, 32, 119, 105, 116, 104, 32>>
StlHeaderSuffix == <<32, 110, 111, 100, 101, 115>>

StlHeaderLen == 80

\* lines 103-104: the text, padded with NUL to 80, encoded and cut to 80 bytes
StlHeader(nv) ==
    LET text == StlHeaderPrefix \o DigitCodes(Digits(nv)) \o StlHeaderSuffix
        padded == Take(Ljust(text, StlHeaderLen, 0), StlHeaderLen)
    IN  [k \in 1..Len(padded) |-> LitByte(padded[k])]

\* line 111: the three vertices of a face, by 0-based index into the list
FaceVertices(vertices, face) == [k \in 1..3 |-> vertices[face[k] + 1]]

\* lines 114-128
FaceNormal(p) == [axis \in 1..3 |-> NormalComp(p[1], p[2], p[3], axis)]

VertexCoords(p) == [axis \in 1..3 |-> Coord(p, axis)]

\* line 139: the attribute byte count
AttributeBytesMissing == <<>>
AttributeBytes == PackU16LE(0)

\* lines 131-139: the bytes written for one face
TriangleRecord(vertices, face) ==
    LET p == FaceVertices(vertices, face)
    IN  PackFFF(FaceNormal(p))
        \o PackFFF(VertexCoords(p[1]))
        \o PackFFF(VertexCoords(p[2]))
        \o PackFFF(VertexCoords(p[3]))
        \o AttributeBytes

\* loop of lines 110-139, from face k on
RECURSIVE StlRecords(_, _, _)
StlRecords(vertices, faces, k) ==
    IF k > Len(faces) THEN <<>>
    ELSE TriangleRecord(vertices, faces[k]) \o StlRecords(vertices, faces, k + 1)

\* the bytes of the file once the with block of line 101 is left
WriteStlBinary(vertices, faces) ==
    StlHeader(Len(vertices)) \o PackU32LE(Len(faces)) \o StlRecords(vertices, faces, 1)

----------------------------------------------------------------------------
(* Text files: a file is a sequence of lines, a line a tag and its fields *)

\* a field: an integer printed in decimal, or a float printed with .6f
IntTok(n) == [kind |-> "int", digits |-> Digits(n), f |-> NoFloat]
Fixed6Tok(x) == [kind |-> "fixed6", digits |-> <<>>, f |-> x]

Line(tag, args) == [tag |-> tag, args |-> args]

\* the three coordinates of a vertex, each formatted with .6f (lines 158, 184)
CoordToks(p) == [axis \in 1..3 |-> Fixed6Tok(Coord(p, axis))]

----------------------------------------------------------------------------
(* write_obj, lines 142-164 *)

\* line 164: the index written for the 0-based index i
ObjIndexUnshifted(i) == i
ObjIndex(i) == i + 1

ObjVertexLine(p) == Line("v", CoordToks(p))

ObjFaceLine(face) == Line("f", [k \in 1..3 |-> IntTok(ObjIndex(face[k]))])

\* the lines of the file once the with block of line 151 is left
WriteObj(vertices, faces) ==
    << Line("# Generated sphere mesh with", <<IntTok(Len(vertices)), IntTok(Len(faces))>>),
       Line("# Created by generate_test_meshes.py", <<>>),
       Line("", <<>>) >>
    \o [k \in 1..Len(vertices) |-> ObjVertexLine(vertices[k])]
    \o << Line("", <<>>) >>
    \o [k \in 1..Len(faces) |-> ObjFaceLine(faces[k])]

----------------------------------------------------------------------------
(* write_vtp, lines 167-206 *)

VtpPointLine(p) == Line("", CoordToks(p))

\* line 194: the 0-based indices as stored
VtpConnectivityLine(face) == Line("", [k \in 1..3 |-> IntTok(face[k])])

\* line 200
VtpOffsetLine(i) == Line("", <<IntTok(i * 3)>>)

\* the lines of the file once the with block of line 174 is left
WriteVtp(vertices, faces) ==
    << Line("<?xml version=\"1.0\"?>", <<>>),
       Line("<VTKFile type=\"PolyData\" version=\"1.0\" byte_order=\"LittleEndian\">", <<>>),
       Line("<PolyData>", <<>>),
       Line("<Piece NumberOfPoints NumberOfPolys>",
            <<IntTok(Len(vertices)), IntTok(Len(faces))>>),
       Line("<Points>", <<>>),
       Line("<DataArray type=\"Float32\" NumberOfComponents=\"3\" format=\"ascii\">", <<>>) >>
    \o [k \in 1..Len(vertices) |-> VtpPointLine(vertices[k])]
    \o << Line("</DataArray>", <<>>),
          Line("</Points>", <<>>),
          Line("<Polys>", <<>>),
          Line("<DataArray type=\"Int32\" Name=\"connectivity\" format=\"ascii\">", <<>>) >>
    \o [k \in 1..Len(faces) |-> VtpConnectivityLine(faces[k])]
    \o << Line("</DataArray>", <<>>),
          Line("<DataArray type=\"Int32\" Name=\"offsets\" format=\"ascii\">", <<>>) >>
    \o [i \in 1..Len(faces) |-> VtpOffsetLine(i)]
    \o << Line("</DataArray>", <<>>),
          Line("</Polys>", <<>>),
          Line("</Piece>", <<>>),
          Line("</PolyData>", <<>>),
          Line("</VTKFile>", <<>>) >>

----------------------------------------------------------------------------
(* generate_test_mesh, lines 218-268: what both specifications share *)

\* lines 237-242: the filename suffix, as the number and the unit printed
Suffix(nodes) ==
    IF nodes >= 1000000 THEN [n |-> nodes \div 1000000, unit |-> "m"]
    ELSE IF nodes >= 1000 THEN [n |-> nodes \div 1000, unit |-> "k"]
    ELSE [n |-> nodes, unit |-> ""]

\* output_dir / f"mesh_{suffix}_nodes.{ext}", lines 248, 255, 262
FileName(sfx, ext) == [dir |-> "test_meshes", suffix |-> sfx, ext |-> ext]

\* lines 247, 254, 261: is the format among those requested
RequestedAlways(fmt, fmts) == TRUE
Requested(fmt, fmts) == fmt \in fmts

\* the file system after a file is created or overwritten
Store(fs, name, content) ==
    [n \in (DOMAIN fs) \cup {name} |-> IF n = name THEN content ELSE fs[n]]

NoFiles == [n \in {} |-> <<>>]

\* the position after the block of a format
NextPc(fmt) == IF fmt = "stl" THEN "obj" ELSE IF fmt = "obj" THEN "vtp" ELSE "return"

----------------------------------------------------------------------------
(* Spec: one call, on a small input, the mesh and the files held in full *)

\* the meshes an encoder is called on directly: nv vertices and nf faces, each
\* face three indices into the vertices
DirectMeshes(nv, nf) ==
    { [vertices |-> [k \in 1..nv |-> Vertex(0, k - 1)], faces |-> fs] :
        fs \in [1..nf -> (0..(nv - 1)) \X (0..(nv - 1)) \X (0..(nv - 1))] }

Encoders == {"write_stl_binary", "write_obj", "write_vtp"}

\* the name an encoder called directly writes to
DirectName(e) ==
    [dir |-> "", suffix |-> [n |-> 0, unit |-> ""],
     ext |-> IF e = "write_stl_binary" THEN "stl" ELSE IF e = "write_obj" THEN "obj" ELSE "vtp"]

Init ==
    /\ \/ /\ entry = "generate_test_mesh"
          /\ num_nodes \in (0 - NegNodes)..MaxNodes
          /\ formats \in SUBSET Formats
          /\ mesh = <<>>
       \/ /\ entry \in Encoders
          /\ num_nodes = 0
          /\ formats = {}
          /\ \E nv \in 0..MaxV : \E nf \in 0..MaxF : \E m \in DirectMeshes(nv, nf) :
                mesh = <<m>>
    /\ pc = "start"
    /\ actual_nodes = 0
    /\ actual_faces = 0
    /\ suffix = Suffix(0)
    /\ files = NoFiles
    /\ files_created = <<>>
    /\ raised = "none"
    /\ test_sizes = <<>>
    /\ size_ix = 0
    /\ all_files = <<>>
    /\ gen_calls = 0
    /\ writes = <<>>

\* lines 229-242: the mesh is generated, measured and the suffix chosen; an
\* exception of generate_sphere_mesh ends the call
Generate ==
    /\ entry = "generate_test_mesh"
    /\ pc = "start"
    /\ gen_calls' = gen_calls + 1
    /\ LET r == GenerateSphereMesh(num_nodes)
       IN  IF r.raised # "none"
             THEN /\ raised' = r.raised
                  /\ pc' = "raised"
                  /\ UNCHANGED <<mesh, actual_nodes, actual_faces, suffix>>
             ELSE /\ mesh' = r.result
                  /\ actual_nodes' = Len(r.result[1].vertices)
                  /\ actual_faces' = Len(r.result[1].faces)
                  /\ suffix' = Suffix(Len(r.result[1].vertices))
                  /\ pc' = "stl"
                  /\ UNCHANGED raised
    /\ UNCHANGED <<entry, num_nodes, formats, files, files_created, test_sizes,
                   size_ix, all_files, writes>>

\* the contents an encoder leaves in its file
Encode(fmt, m) ==
    IF fmt = "stl" THEN WriteStlBinary(m.vertices, m.faces)
    ELSE IF fmt = "obj" THEN WriteObj(m.vertices, m.faces)
    ELSE WriteVtp(m.vertices, m.faces)

\* lines 247-252, 254-259, 261-266: the block of one format
FormatBlock(fmt) ==
    /\ entry = "generate_test_mesh"
    /\ pc = fmt
    /\ IF Requested(fmt, formats)
         THEN /\ files' = Store(files, FileName(suffix, fmt), Encode(fmt, mesh[1]))
              /\ files_created' = Append(files_created, FileName(suffix, fmt))
              /\ writes' = Append(writes, [name |-> FileName(suffix, fmt), fmt |-> fmt,
                                           size_ix |-> size_ix, outcome |-> "ok"])
         ELSE UNCHANGED <<files, files_created, writes>>
    /\ pc' = NextPc(fmt)
    /\ UNCHANGED <<entry, num_nodes, formats, mesh, actual_nodes, actual_faces, suffix,
                   raised, test_sizes, size_ix, all_files, gen_calls>>

StlBlock == FormatBlock("stl")
ObjBlock == FormatBlock("obj")
VtpBlock == FormatBlock("vtp")

\* line 268
Return ==
    /\ entry = "generate_test_mesh"
    /\ pc = "return"
    /\ pc' = "done"
    /\ UNCHANGED <<entry, num_nodes, formats, mesh, actual_nodes, actual_faces, suffix,
                   files, files_created, raised, test_sizes, size_ix, all_files,
                   gen_calls, writes>>

\* an encoder called by itself on a mesh of the caller's
DirectWrite(e, fmt) ==
    /\ entry = e
    /\ pc = "start"
    /\ files' = Store(files, DirectName(e), Encode(fmt, mesh[1]))
    /\ writes' = Append(writes, [name |-> DirectName(e), fmt |-> fmt,
                                 size_ix |-> size_ix, outcome |-> "ok"])
    /\ pc' = "done"
    /\ UNCHANGED <<entry, num_nodes, formats, mesh, actual_nodes, actual_faces, suffix,
                   files_created, raised, test_sizes, size_ix, all_files, gen_calls>>

DirectStl == DirectWrite("write_stl_binary", "stl")
DirectObj == DirectWrite("write_obj", "obj")
DirectVtp == DirectWrite("write_vtp", "vtp")

Next ==
    \/ Generate
    \/ StlBlock
    \/ ObjBlock
    \/ VtpBlock
    \/ Return
    \/ DirectStl
    \/ DirectObj
    \/ DirectVtp

Spec == Init /\ [][Next]_vars

----------------------------------------------------------------------------
(* Properties of Spec *)

\* the generator has returned its mesh to generate_test_mesh
Generated == entry = "generate_test_mesh" /\ mesh # <<>>

\* does d equal floor(sqrt(n))
IsFloorSqrt(d, n) == d >= 0 /\ d * d <= n /\ n < (d + 1) * (d + 1)

\* C1: for every target count N >= 1 the generator raises nothing and returns a
\* vertex sequence of exactly (d+1) * 2*d vertices, d = floor(sqrt(N)).
C1_VertexCount ==
    (entry = "generate_test_mesh" /\ num_nodes >= 1 /\ pc # "start") =>
        /\ raised = "none"
        /\ mesh # <<>>
        /\ \E d \in 0..num_nodes :
              /\ IsFloorSqrt(d, num_nodes)
              /\ Len(mesh[1].vertices) = (d + 1) * (2 * d)

C1_Witness ==
    /\ Generated
    /\ num_nodes = 10
    /\ Len(mesh[1].vertices) = 24

\* C2: every index of every face of a generated mesh lies in [0, vertex_count).
C2_FaceIndicesInRange ==
    Generated =>
        \A k \in 1..Len(mesh[1].faces) : \A c \in 1..3 :
            /\ mesh[1].faces[k][c] >= 0
            /\ mesh[1].faces[k][c] < Len(mesh[1].vertices)

\* a face with a wrapped next-longitude neighbour and one reaching the last index
C2_Witness ==
    /\ Generated
    /\ num_nodes = 9
    /\ \E k \in 1..Len(mesh[1].faces) : mesh[1].faces[k] = <<11, 6, 17>>
    /\ \E k \in 1..Len(mesh[1].faces) :
          mesh[1].faces[k][3] = Len(mesh[1].vertices) - 1

\* the triangles the claim lists for resolution d, as sets
FirstTriangles(d) ==
    { <<i * (2 * d) + j, i * (2 * d) + ((j + 1) % (2 * d)), (i + 1) * (2 * d) + j>> :
        i \in 1..(d - 1), j \in 0..(2 * d - 1) }
SecondTriangles(d) ==
    { <<i * (2 * d) + ((j + 1) % (2 * d)), (i + 1) * (2 * d) + ((j + 1) % (2 * d)),
        (i + 1) * (2 * d) + j>> :
        i \in 0..(d - 2), j \in 0..(2 * d - 1) }

FaceSet(fs) == { fs[k] : k \in 1..Len(fs) }

\* C3: triangle (v1,v2,v3) is emitted exactly for i > 0 and (v2,v4,v3) exactly
\* for i < d-1, so there are 4*d*(d-1) faces; N = 4 gives 12 vertices and 8
\* faces, the first 4 from ring pair 0 and the last 4 from ring pair 1.
C3_FaceRule ==
    Generated =>
        \E d \in 1..num_nodes :
            /\ IsFloorSqrt(d, num_nodes)
            /\ FaceSet(mesh[1].faces) = FirstTriangles(d) \cup SecondTriangles(d)
            /\ Cardinality(FirstTriangles(d)) = 2 * d * (d - 1)
            /\ Cardinality(SecondTriangles(d)) = 2 * d * (d - 1)
            /\ Len(mesh[1].faces) = 4 * d * (d - 1)
            /\ num_nodes = 4 =>
                  /\ Len(mesh[1].vertices) = 12
                  /\ mesh[1].faces = << <<1, 5, 4>>, <<2, 6, 5>>, <<3, 7, 6>>, <<0, 4, 7>>,
                                        <<4, 5, 8>>, <<5, 6, 9>>, <<6, 7, 10>>, <<7, 4, 11>> >>

C3_Witness ==
    /\ Generated
    /\ num_nodes = 4
    /\ Len(mesh[1].faces) = 8

\* C4: a target count N <= 0 (the only integers with floor(sqrt(N)) = 0 or no
\* square root) ends generation with an exception at once: no mesh is ever
\* bound and no file is ever written.
C4_NonPositiveFailsFast ==
    (entry = "generate_test_mesh" /\ num_nodes <= 0) =>
        /\ mesh = <<>>
        /\ files = NoFiles
        /\ writes = <<>>
        /\ pc \in {"start", "raised"}
        /\ pc = "raised" <=> raised # "none"
        /\ raised \in {"none", "ValueError", "ZeroDivisionError"}

C4_Witness ==
    /\ entry = "generate_test_mesh"
    /\ num_nodes = 0
    /\ formats = Formats
    /\ pc = "raised"
    /\ raised = "ZeroDivisionError"

\* reading a binary file back
IsLit(b) == b.ix = 0
\* the unsigned integer held little-endian in a sequence of literal bytes
RECURSIVE UnpackLE(_)
UnpackLE(bs) == IF bs = <<>> THEN 0 ELSE bs[1].lit + 256 * UnpackLE(Tail(bs))
\* struct.unpack('<f', bs): the float whose four bytes these are, in order
IsF32Of(bs, x) == Len(bs) = 4 /\ \A b \in 1..4 : bs[b].ix = b /\ bs[b].f = x
\* the bytes of 0-based record k of a binary file
RecordBytes(bytes, k) == SubSeq(bytes, 84 + 50 * k + 1, 84 + 50 * k + 50)
\* the 0-based float slot s (0..11) of a record
Slot(rec, s) == SubSeq(rec, 4 * s + 1, 4 * s + 4)

\* the binary files present, each with the mesh it was written from
StlFiles == { n \in DOMAIN files : n.ext = "stl" }

\* C5: a binary file of a mesh with F faces is 80 header bytes, the count F as
\* 4 little-endian bytes, then F records of 50 bytes: 12 of normal, 36 of the
\* face's vertices in the order v1, v2, v3, and 2 zero bytes; record k is
\* face k; 84 + 50*F bytes in all.
C5_StlLayout ==
    \A n \in StlFiles :
        LET bytes == files[n]
            vs == mesh[1].vertices
            fs == mesh[1].faces
        IN  /\ Len(bytes) = 84 + 50 * Len(fs)
            /\ \A k \in 1..80 : IsLit(bytes[k]) /\ bytes[k].lit \in 0..127
            /\ \A k \in 81..84 : IsLit(bytes[k]) /\ bytes[k].lit \in 0..255
            /\ UnpackLE(SubSeq(bytes, 81, 84)) = Len(fs)
            /\ \A k \in 0..(Len(fs) - 1) :
                  LET rec == RecordBytes(bytes, k)
                      face == fs[k + 1]
                      p == [c \in 1..3 |-> vs[face[c] + 1]]
                  IN  /\ Len(rec) = 50
                      /\ \A a \in 1..3 :
                            IsF32Of(Slot(rec, a - 1), NormalComp(p[1], p[2], p[3], a))
                      /\ \A c \in 1..3 : \A a \in 1..3 :
                            IsF32Of(Slot(rec, 3 * c + a - 1), Coord(p[c], a))
                      /\ IsLit(rec[49]) /\ rec[49].lit = 0
                      /\ IsLit(rec[50]) /\ rec[50].lit = 0

C5_Witness ==
    /\ Generated
    /\ num_nodes = 9
    /\ \E n \in StlFiles : Len(files[n]) = 84 + 50 * 24

\* reading a text file back
RECURSIVE ParseInt(_)
ParseInt(ds) == IF Len(ds) = 1 THEN ds[1]
                ELSE 10 * ParseInt(SubSeq(ds, 1, Len(ds) - 1)) + ds[Len(ds)]
LinesTagged(lines, t) == SelectSeq(lines, LAMBDA l : l.tag = t)

ObjFiles == { n \in DOMAIN files : n.ext = "obj" }

\* C6: a text file holds one v line per vertex and one f line per face, in
\* sequence order, and each index of an f line minus 1 is the 0-based index of
\* the face, in its winding order; every written index is in [1, vertex_count].
C6_ObjRoundTrip ==
    \A n \in ObjFiles :
        LET vlines == LinesTagged(files[n], "v")
            flines == LinesTagged(files[n], "f")
            vs == mesh[1].vertices
            fs == mesh[1].faces
        IN  /\ Len(vlines) = Len(vs)
            /\ Len(flines) = Len(fs)
            /\ \A k \in 1..Len(vs) : \A a \in 1..3 :
                  /\ vlines[k].args[a].kind = "fixed6"
                  /\ vlines[k].args[a].f = Coord(vs[k], a)
            /\ \A k \in 1..Len(fs) :
                  /\ Len(flines[k].args) = 3
                  /\ \A c \in 1..3 :
                        /\ flines[k].args[c].kind = "int"
                        /\ ParseInt(flines[k].args[c].digits) - 1 = fs[k][c]
                        /\ ParseInt(flines[k].args[c].digits) \in 1..Len(vs)

C6_Witness ==
    /\ Generated
    /\ num_nodes = 16
    /\ \E n \in ObjFiles :
          /\ Len(LinesTagged(files[n], "f")) = 48
          /\ LinesTagged(files[n], "f")[48].args[3].digits = <<4, 0>>

\* the indices of the two pole rings of a generated mesh of resolution d
PoleRing(d) == (0..(2 * d - 1)) \cup ((d * 2 * d)..((d + 1) * 2 * d - 1))
\* the faces that contain index v
FacesWith(fs, v) == { k \in 1..Len(fs) : \E c \in 1..3 : fs[k][c] = v }

\* C10 as stated: no face of a generated mesh contains the index of a
\* pole-ring vertex.
C10_PoleRingsUnreferenced ==
    Generated =>
        \E d \in 1..num_nodes :
            /\ IsFloorSqrt(d, num_nodes)
            /\ PoleRing(d) \subseteq 0..(Len(mesh[1].vertices) - 1)
            /\ \A v \in PoleRing(d) : FacesWith(mesh[1].faces, v) = {}

\* C10 amended: the vertices of both pole rings are present in the vertex
\* sequence; they are unreferenced only when floor(sqrt(N)) = 1, where the
\* mesh has no face; when floor(sqrt(N)) >= 2 every pole-ring vertex is
\* referenced by exactly one face.
C10_PoleRingsReferencedOnce ==
    Generated =>
        \E d \in 1..num_nodes :
            /\ IsFloorSqrt(d, num_nodes)
            /\ PoleRing(d) \subseteq 0..(Len(mesh[1].vertices) - 1)
            /\ Cardinality(PoleRing(d)) = 4 * d
            /\ d = 1 => mesh[1].faces = <<>>
            /\ d >= 2 =>
                  \A v \in PoleRing(d) : Cardinality(FacesWith(mesh[1].faces, v)) = 1

C10_Witness ==
    /\ Generated
    /\ num_nodes = 16
    /\ Cardinality(FacesWith(mesh[1].faces, 0)) = 1
    /\ Cardinality(FacesWith(mesh[1].faces, 39)) = 1

----------------------------------------------------------------------------
(* SpecRun: main over its size list, a mesh held by the lengths of its lists *)

\* lines 282-288
MainSizes == <<10000, 100000, 250000, 500000, 1000000>>

\* the sizes generate_test_mesh is called with by itself
RunSizes == {0} \cup { MainSizes[k] : k \in 1..Len(MainSizes) }

\* number of appends of line 68 over rings lo..hi: one per inner iteration,
\* so lon_divisions per ring (the range is halved to keep the evaluation shallow)
RECURSIVE CountVertices(_, _, _)
CountVertices(lo, hi, lon) ==
    IF lo > hi THEN 0
    ELSE IF lo = hi THEN lon
    ELSE CountVertices(lo, (lo + hi) \div 2, lon)
         + CountVertices((lo + hi) \div 2 + 1, hi, lon)

\* number of appends of lines 82 and 84 in one inner iteration of ring pair i
CountQuadFaces(i, lat) ==
    (IF FirstGuard(i) THEN 1 ELSE 0) + (IF SecondGuard(i, lat) THEN 1 ELSE 0)

\* number of appends of lines 82 and 84 over ring pairs lo..hi
RECURSIVE CountFaces(_, _, _, _)
CountFaces(lo, hi, lat, lon) ==
    IF lo > hi THEN 0
    ELSE IF lo = hi THEN lon * CountQuadFaces(lo, lat)
    ELSE CountFaces(lo, (lo + hi) \div 2, lat, lon)
         + CountFaces((lo + hi) \div 2 + 1, hi, lat, lon)

\* generate_sphere_mesh, by the lengths of the lists it returns
GenerateSphereMeshCounts(n) ==
    IF SqrtRaises(n) THEN [raised |-> "ValueError", nodes |-> 0, faces |-> 0]
    ELSE IF ThetaRaises(LatDivisions(n))
      THEN [raised |-> "ZeroDivisionError", nodes |-> 0, faces |-> 0]
    ELSE [raised |-> "none",
          nodes |-> CountVertices(0, LatDivisions(n), LonDivisions(n)),
          faces |-> CountFaces(0, FaceRingCount(LatDivisions(n)) - 1, LatDivisions(n),
                              LonDivisions(n))]

\* the lengths SpecRun holds are the lengths of the lists Spec holds
CountsAgree ==
    Generated =>
        /\ GenerateSphereMeshCounts(num_nodes).nodes = Len(mesh[1].vertices)
        /\ GenerateSphereMeshCounts(num_nodes).faces = Len(mesh[1].faces)

\* what a file holds: the counts written into it (the header text and count
\* field of lines 103 and 107, the comment of line 153, the attributes of
\* line 178), and whether the write ran to its end
Written(nodes, faces) == [nodes |-> nodes, polys |-> faces, complete |-> TRUE]
\* a file whose write failed after open created it: a prefix of the contents
Truncated == [nodes |-> 0, polys |-> 0, complete |-> FALSE]

\* open or a write of the with blocks (lines 101, 151, 174) may raise OSError
Outcomes == {"ok", "open_failed", "write_failed"}

\* no handler encloses the encoder calls (lines 249, 256, 263) or the call of
\* line 292: the exception leaves generate_test_mesh and main
AfterRaiseContinue(next) == next
AfterRaise(next) == "raised"

InitRun ==
    /\ \/ /\ entry = "main"
          /\ test_sizes = MainSizes
          /\ formats = Formats
       \/ /\ entry = "generate_test_mesh"
          /\ test_sizes \in { <<n>> : n \in RunSizes }
          /\ formats \in SUBSET Formats
    /\ size_ix = 1
    /\ num_nodes = test_sizes[1]
    /\ pc = "start"
    /\ mesh = <<>>
    /\ actual_nodes = 0
    /\ actual_faces = 0
    /\ suffix = Suffix(0)
    /\ files = NoFiles
    /\ files_created = <<>>
    /\ raised = "none"
    /\ all_files = <<>>
    /\ gen_calls = 0
    /\ writes = <<>>

\* lines 229-242
RunGenerate ==
    /\ pc = "start"
    /\ gen_calls' = gen_calls + 1
    /\ LET r == GenerateSphereMeshCounts(num_nodes)
       IN  IF r.raised # "none"
             THEN /\ raised' = r.raised
                  /\ pc' = "raised"
                  /\ UNCHANGED <<actual_nodes, actual_faces, suffix>>
             ELSE /\ actual_nodes' = r.nodes
                  /\ actual_faces' = r.faces
                  /\ suffix' = Suffix(r.nodes)
                  /\ pc' = "stl"
                  /\ UNCHANGED raised
    /\ UNCHANGED <<entry, num_nodes, formats, mesh, files, files_created, test_sizes,
                   size_ix, all_files, writes>>

\* lines 247-252, 254-259, 261-266: the block of one format; the encoder
\* writes its file, or fails in open or in a write
RunFormatBlock(fmt) ==
    /\ pc = fmt
    /\ IF Requested(fmt, formats)
         THEN \E o \in Outcomes :
                /\ writes' = Append(writes, [name |-> FileName(suffix, fmt), fmt |-> fmt,
                                             size_ix |-> size_ix, outcome |-> o])
                /\ files' = IF o = "ok"
                              THEN Store(files, FileName(suffix, fmt),
                                         Written(actual_nodes, actual_faces))
                            ELSE IF o = "write_failed"
                              THEN Store(files, FileName(suffix, fmt), Truncated)
                            ELSE files
                /\ IF o = "ok"
                     THEN /\ files_created' = Append(files_created, FileName(suffix, fmt))
                          /\ pc' = NextPc(fmt)
                          /\ UNCHANGED raised
                     ELSE /\ raised' = "OSError"
                          /\ pc' = AfterRaise(NextPc(fmt))
                          /\ UNCHANGED files_created
         ELSE /\ pc' = NextPc(fmt)
              /\ UNCHANGED <<files, files_created, writes, raised>>
    /\ UNCHANGED <<entry, num_nodes, formats, mesh, actual_nodes, actual_faces, suffix,
                   test_sizes, size_ix, all_files, gen_calls>>

RunStlBlock == RunFormatBlock("stl")
RunObjBlock == RunFormatBlock("obj")
RunVtpBlock == RunFormatBlock("vtp")

\* line 268, and in main lines 291-293: the list is added to all_files and the
\* loop goes on to the next size
RunReturn ==
    /\ pc = "return"
    /\ IF entry = "main"
         THEN /\ all_files' = all_files \o files_created
              /\ IF size_ix < Len(test_sizes)
                   THEN /\ size_ix' = size_ix + 1
                        /\ num_nodes' = test_sizes[size_ix + 1]
                        /\ files_created' = <<>>
                        /\ pc' = "start"
                   ELSE /\ pc' = "done"
                        /\ UNCHANGED <<size_ix, num_nodes, files_created>>
         ELSE /\ pc' = "done"
              /\ UNCHANGED <<all_files, size_ix, num_nodes, files_created>>
    /\ UNCHANGED <<entry, formats, mesh, actual_nodes, actual_faces, suffix, files,
                   raised, test_sizes, gen_calls, writes>>

NextRun ==
    \/ RunGenerate
    \/ RunStlBlock
    \/ RunObjBlock
    \/ RunVtpBlock
    \/ RunReturn

SpecRun == InitRun /\ [][NextRun]_vars

----------------------------------------------------------------------------
(* Properties of SpecRun *)

FileNames == DOMAIN files

\* C7: a call of generate_test_mesh generates the mesh once and writes one
\* file per requested format, each holding the counts of that one mesh;
\* formats {stl, obj} at N = 10000 give exactly two files, none of them vtp.
C7_OneFilePerFormat ==
    (entry = "generate_test_mesh" /\ pc = "done") =>
        /\ gen_calls = 1
        /\ FileNames = { FileName(suffix, fmt) : fmt \in formats }
        /\ Cardinality(FileNames) = Cardinality(formats)
        /\ Len(writes) = Cardinality(formats)
        /\ Len(files_created) = Cardinality(formats)
        /\ \A n \in FileNames :
              /\ files[n].complete
              /\ files[n].nodes = actual_nodes
              /\ files[n].polys = actual_faces
        /\ (num_nodes = 10000 /\ formats = {"stl", "obj"}) =>
              /\ Cardinality(FileNames) = 2
              /\ \A n \in FileNames : n.ext # "vtp"

C7_Witness ==
    /\ entry = "generate_test_mesh"
    /\ pc = "done"
    /\ num_nodes = 10000
    /\ formats = {"stl", "obj"}
    /\ Cardinality(FileNames) = 2

\* C8 as stated: a run of main leaves mesh_10k_nodes, mesh_100k_nodes and
\* mesh_1m_nodes with 10,000, 100,000 and 1,000,000 nodes, as .stl and as .obj.
C8_DocumentedFiles ==
    (entry = "main" /\ pc = "done") =>
        \A ext \in {"stl", "obj"} :
            /\ FileName([n |-> 10, unit |-> "k"], ext) \in FileNames
            /\ files[FileName([n |-> 10, unit |-> "k"], ext)].nodes = 10000
            /\ FileName([n |-> 100, unit |-> "k"], ext) \in FileNames
            /\ files[FileName([n |-> 100, unit |-> "k"], ext)].nodes = 100000
            /\ FileName([n |-> 1, unit |-> "m"], ext) \in FileNames
            /\ files[FileName([n |-> 1, unit |-> "m"], ext)].nodes = 1000000

\* what a run of main that meets no failure leaves instead
MainLeaves ==
    (entry = "main" /\ pc = "done") =>
        /\ { <<n.suffix.n, n.suffix.unit, files[n].nodes>> : n \in FileNames } =
              { <<20, "k", 20200>>, <<200, "k", 200344>>, <<501, "k", 501000>>,
                <<1, "m", 1001112>>, <<2, "m", 2002000>> }
        /\ Cardinality(FileNames) = 15

\* C9: in a run of main a failed encoder write ends the run at once: it is
\* the last encoder call of the run, the run ends with the exception, and
\* every file written before it is still there, complete.
C9_FailureAbortsRun ==
    entry = "main" =>
        \A k \in 1..Len(writes) :
            /\ writes[k].outcome # "ok" =>
                  /\ k = Len(writes)
                  /\ pc = "raised"
                  /\ raised = "OSError"
            /\ writes[k].outcome = "ok" =>
                  /\ writes[k].name \in FileNames
                  /\ files[writes[k].name].complete

C9_Witness ==
    /\ entry = "main"
    /\ pc = "raised"
    /\ size_ix = 2
    /\ Len(writes) = 5
    /\ writes[5].outcome = "write_failed"
    /\ Cardinality(FileNames) = 5

====
